---- MODULE Spec2Model ----
(***************************************************************************)
(* Review-Bot (src/main.py): the review submission pipeline, the Backup    *)
(* Store and the Content Sanitizer, as a state machine.                    *)
(*                                                                         *)
(* A flow is one run of the button -> selection -> modal pipeline.  The    *)
(* handlers run on one asyncio event loop, so a handler is atomic between  *)
(* two awaits; on_submit is cut at its awaits of channel.send and          *)
(* add_roles, after which it reads shared state again.  The platform's     *)
(* answers (a send that raises, a file that cannot be read or written)     *)
(* are inputs drawn with \E.  Texts are sequences of one-character         *)
(* strings.  The two clock fields of a record (timestamp, created_at) are  *)
(* written once with the record and never read by the program; the model   *)
(* leaves them out of the record.                                          *)
(***************************************************************************)
EXTENDS Integers, Sequences, FiniteSets, TLC

\* ------------------------------------------------------------------ bounds
\* Platform events (a member leaving, a channel or role deleted, a permission
\* revoked) that may happen during a run.
MaxEnvEvents == 1
\* Length of the short text body and of the whitespace padding of the inputs.
ShortBody == 2
PadLen == 8
\* The most human members a guild has when its pool is built.
MaxMembers == 30
\* How far around MAX_REVIEW_LENGTH the long raw texts reach, and how often
\* a raw text repeats its last piece.
Overrun == 2
MaxRepeat == 4

\* The submission flows that may be in flight together.
Flows == {1, 2}
Guilds == {1}
Users == {1, 2}

\* ------------------------------------------------------- program constants
None == 0
BotId == 9
MAX_REVIEW_LENGTH == 1000
MinReviewLength == 10
MaxSelectOptions == 25
MaxMentions == 3

\* The guild's channels and roles (ids are unique across guilds).
ChannelOf(g) == 10 * g + 1
StaffRoleOf(g) == 100 * g + 1
RewardRoleOf(g) == 100 * g + 2
AllChannels == {ChannelOf(g) : g \in Guilds}
AllRoles == {StaffRoleOf(g) : g \in Guilds} \cup {RewardRoleOf(g) : g \in Guilds}
\* The guild a channel or a role belongs to.
ChannelGuild(c) == c \div 10
RoleGuild(r) == r \div 100
\* Accounts flagged as bots (m.bot): this bot and one more integration.
OtherBot == 8
Bots == {BotId, OtherBot}
\* The member ids of a large guild.
ManyUsers == 11..(10 + MaxMembers)
\* Members whose guild permissions include kick, manage-messages or manage-roles.
Elevated == {1} \cup Bots \cup {m \in ManyUsers : m % 15 # 0}
\* Members holding the guild's staff role when the run starts.
Staff == {1}

\* ------------------------------------------------------------------- texts
Rep(c, n) == [i \in 1..n |-> c]

Whitespace == {" ", "\n", "\t"}
\* The characters sanitize_content removes; "bq" stands for the backquote
\* (U+0060), which the TLA+ lexer does not accept inside a string.
MarkdownChars == {"bq", "*", "_", "~"}
Digits == {"0", "1", "2", "3", "4", "5", "6", "7", "8", "9"}

LowerOf ==
  [c \in {"A","B","C","D","E","F","G","H","I","J","K","L","M","N","O","P","Q",
          "R","S","T","U","V","W","X","Y","Z"} |->
     CASE c = "A" -> "a" [] c = "B" -> "b" [] c = "C" -> "c" [] c = "D" -> "d"
       [] c = "E" -> "e" [] c = "F" -> "f" [] c = "G" -> "g" [] c = "H" -> "h"
       [] c = "I" -> "i" [] c = "J" -> "j" [] c = "K" -> "k" [] c = "L" -> "l"
       [] c = "M" -> "m" [] c = "N" -> "n" [] c = "O" -> "o" [] c = "P" -> "p"
       [] c = "Q" -> "q" [] c = "R" -> "r" [] c = "S" -> "s" [] c = "T" -> "t"
       [] c = "U" -> "u" [] c = "V" -> "v" [] c = "W" -> "w" [] c = "X" -> "x"
       [] c = "Y" -> "y" [] c = "Z" -> "z"]
Lower(s) == [i \in 1..Len(s) |-> IF s[i] \in DOMAIN LowerOf THEN LowerOf[s[i]] ELSE s[i]]

\* s holds p as a substring, starting at position i.
MatchAt(s, p, i) == i + Len(p) - 1 <= Len(s) /\ SubSeq(s, i, i + Len(p) - 1) = p
Contains(s, p) == \E i \in 1..Len(s) : MatchAt(s, p, i)
\* str.count(p) for a p that cannot overlap itself.
Count(s, p) == Cardinality({i \in 1..Len(s) : MatchAt(s, p, i)})

\* SUSPICIOUS_PATTERNS, the literal ones (https? spelled out), lower case.
LiteralPatterns ==
  { <<"@","e","v","e","r","y","o","n","e">>,
    <<"@","h","e","r","e">>,
    <<"d","i","s","c","o","r","d",".","g","g","/">>,
    <<"h","t","t","p",":","/","/","b","i","t",".","l","y","/">>,
    <<"h","t","t","p","s",":","/","/","b","i","t",".","l","y","/">>,
    <<"h","t","t","p",":","/","/","t","i","n","y","u","r","l",".","c","o","m","/">>,
    <<"h","t","t","p","s",":","/","/","t","i","n","y","u","r","l",".","c","o","m","/">> }
\* <@&\d+>
RoleMention(s) ==
  \E i \in 1..Len(s) :
     /\ MatchAt(s, <<"<", "@", "&">>, i)
     /\ \E j \in (i + 4)..Len(s) :
          /\ s[j] = ">"
          /\ \A k \in (i + 3)..(j - 1) : s[k] \in Digits
MatchesPattern(content) ==
  \/ \E p \in LiteralPatterns : Contains(Lower(content), p)
  \/ RoleMention(content)

Take(s, n) == IF Len(s) <= n THEN s ELSE SubSeq(s, 1, n)

\* The tilde left in.
sanitize_content_KeepsTilde(content) ==
  LET sanitized == SelectSeq(content, LAMBDA c : c \notin MarkdownChars \ {"~"})
      mention_count == Count(content, <<"<", "@">>) + Count(content, <<"<", "#">>)
  IN  [text |-> Take(sanitized, MAX_REVIEW_LENGTH),
       suspicious |-> MatchesPattern(content) \/ mention_count > MaxMentions]

\* The text cut before the markdown characters are removed.
sanitize_content_CutsFirst(content) ==
  LET sanitized == SelectSeq(Take(content, MAX_REVIEW_LENGTH),
                             LAMBDA c : c \notin MarkdownChars)
      mention_count == Count(content, <<"<", "@">>) + Count(content, <<"<", "#">>)
  IN  [text |-> sanitized,
       suspicious |-> MatchesPattern(content) \/ mention_count > MaxMentions]

sanitize_content(content) ==
  LET sanitized == SelectSeq(content, LAMBDA c : c \notin MarkdownChars)
      mention_count == Count(content, <<"<", "@">>) + Count(content, <<"<", "#">>)
  IN  [text |-> Take(sanitized, MAX_REVIEW_LENGTH),
       suspicious |-> MatchesPattern(content) \/ mention_count > MaxMentions]

\* The pieces the raw texts handed to sanitize_content are made of: the four
\* markdown characters, plain characters, broadcast mentions (one in upper
\* case, one broken by a markdown character), role mentions (one without
\* digits), user and channel mentions, a mention opener with nothing after
\* it, and the listed links.
Pieces ==
  { <<"*">>, <<"bq">>, <<"_">>, <<"~">>, <<"x">>, <<" ">>,
    <<"@","e","v","e","r","y","o","n","e">>,
    <<"@","H","E","R","E">>,
    <<"@","e","v","e","r","y","_","o","n","e">>,
    <<"<","@","&","1","2",">">>,
    <<"<","@","&",">">>,
    <<"<","@","1",">">>,
    <<"<","#","1",">">>,
    <<"<","@">>,
    <<"d","i","s","c","o","r","d",".","g","g","/">>,
    <<"h","t","t","p","s",":","/","/","b","i","t",".","l","y","/">>,
    <<"h","t","t","p",":","/","/","t","i","n","y","u","r","l",".","c","o","m","/">> }

RECURSIVE Times(_, _)
Times(p, k) == IF k = 0 THEN <<>> ELSE p \o Times(p, k - 1)

\* The lengths of the plain run in the middle of a long raw text: about
\* MAX_REVIEW_LENGTH.
Runs == (MAX_REVIEW_LENGTH - Overrun)..(MAX_REVIEW_LENGTH + Overrun)
\* The pieces a long raw text ends with.
Tails == { <<"*">>, <<"x">>, <<"@","e","v","e","r","y","o","n","e">> }

\* The raw texts: a piece and a piece repeated, or a piece, a long plain run
\* and a piece.
RawInputs ==
  {p \o Times(q, k) : p \in Pieces, q \in Pieces, k \in 0..MaxRepeat}
  \cup {p \o Rep("a", n) \o q : p \in Pieces, q \in Tails, n \in Runs}

\* No text has been sanitized yet.
NotRun == [text |-> <<>>, suspicious |-> FALSE, ran |-> FALSE]

\* str.strip()
Strip(s) ==
  LET keep == {i \in 1..Len(s) : s[i] \notin Whitespace}
  IN  IF keep = {} THEN <<>>
      ELSE SubSeq(s, CHOOSE i \in keep : \A j \in keep : i <= j,
                     CHOOSE i \in keep : \A j \in keep : j <= i)

\* The raw texts a submitter types into the modal.
Texts ==
  { Rep(" ", PadLen),
    Rep("a", ShortBody) \o Rep(" ", PadLen),
    <<"*">> \o Rep("a", MinReviewLength - 1),
    Rep("a", MinReviewLength) }

\* Two texts of the same length that pass the content checks, the first with
\* a broadcast mention in it.
SuspectTexts ==
  { <<"@", "h", "e", "r", "e">> \o Rep("a", MinReviewLength - 5),
    Rep("a", MinReviewLength) }

\* sanitize_content on the input texts and on their sanitized forms, computed
\* once; Sanitize is sanitize_content read from that table.
Sanitized ==
  LET typed == Texts \cup SuspectTexts
      once == [t \in typed |-> sanitize_content(t)]
      again == [t \in {once[x].text : x \in typed} \ typed |-> sanitize_content(t)]
  IN  once @@ again
Sanitize(content) ==
  IF content \in DOMAIN Sanitized THEN Sanitized[content] ELSE sanitize_content(content)

\* ------------------------------------------------------------------- state
VARIABLES
  flow,        \* per flow: the position in the pipeline and what it holds
  backupFile,  \* review_backup.json: [kind, data], data[guild][review_id] = record
  nextId,      \* the ids uuid4 has handed out so far (each is fresh)
  view,        \* per guild: what the registered ReviewButtonView captured
  members,     \* per guild: the ids guild.get_member resolves
  channels,    \* the channel ids guild.get_channel resolves
  sendable,    \* the channels where the bot has send_messages
  roles,       \* the role ids guild.get_role resolves
  userRoles,   \* per user: the roles held
  envEvents,   \* platform events so far
  settingsFile,\* settings.json: [kind, data], data[guild][key] = id
  registry,    \* the persistent views of the process: message id -> view
  livePost,    \* per guild: the entry-point message posted last
  nextMsg,     \* the message ids the platform has handed out so far
  cmd,         \* per slot: a settings or generate command awaiting its send
  last,        \* the command (or store event) that finished last
  steps,       \* commands started so far
  raw,         \* the text handed to sanitize_content
  clean        \* what sanitize_content returned for it

adminVars == <<settingsFile, registry, livePost, nextMsg, cmd, last, steps>>

sanVars == <<raw, clean>>

vars == <<flow, backupFile, nextId, view, members, channels, sendable, roles,
          userRoles, envEvents, settingsFile, registry, livePost, nextMsg, cmd,
          last, steps, raw, clean>>

EmptyDict == <<>>

\* log is the history of the flow: "modal" (the modal was opened), "submit"
\* (on_submit started), "backup" (backup_review was called), "send"
\* (channel.send was called), "posted" (it returned), "grant" (add_roles was
\* called), "granted" (it returned).  write is how the file write of the
\* flow's backup ended, suspicious the flag sanitize_content returned,
\* response the message on_submit first answers with, delivered the message
\* the submitter got.
IdleFlow ==
  [pc |-> "idle", guild |-> None, user |-> None, pool |-> {}, target |-> None,
   testimonial_channel_id |-> None, reward_role_id |-> None,
   content |-> <<>>, review_id |-> None, footer |-> None, role_message |-> "",
   outcome |-> "none", response |-> "none", delivered |-> "none",
   write |-> "none", suspicious |-> FALSE, log |-> <<>>]

\* What an await of a platform call can do: return, or raise discord.Forbidden
\* or another discord.HTTPException.
CallOutcomes == {"ok", "Forbidden", "HTTPException"}
\* open(BACKUP_FILE, "w") raises before truncating, or the write fails after
\* the file was truncated.
WriteOutcomes == {"ok", "open_failed", "write_failed"}

\* ----------------------------------------------------------- platform lookups
get_member(g, u) == IF u \in members[g] THEN u ELSE None
get_channel(g, c) == IF c \in channels /\ ChannelGuild(c) = g THEN c ELSE None
get_role(g, r) == IF r \in roles /\ RoleGuild(r) = g THEN r ELSE None

\* ---------------------------------------------------------------- Backup Store
\* load_settings and load_backup catch json.JSONDecodeError and IOError.  A
\* file whose bytes are not UTF-8 makes the read raise UnicodeDecodeError,
\* which is neither: the exception leaves the function.
LoadRaises(file, readOk) == readOk /\ file.kind = "undecodable"

load_backup(file, readOk) ==
  IF readOk /\ file.kind = "dict" THEN file.data ELSE EmptyDict

\* save_backup logs a failure and returns normally.
save_backup(file, backup, wr) ==
  CASE wr = "ok" -> [kind |-> "dict", data |-> backup]
    [] wr = "open_failed" -> file
    [] wr = "write_failed" -> [kind |-> "corrupt", data |-> EmptyDict]

backup_review_NotStored(file, guild_id, reviewer_id, reviewed_id, review_content, uuid, readOk, wr) ==
  [file |-> save_backup(file, load_backup(file, readOk), wr), review_id |-> uuid]

\* The file written from the new record alone, not from what was loaded.
backup_review_Overwrites(file, guild_id, reviewer_id, reviewed_id, review_content, uuid, readOk, wr) ==
  LET record == [reviewer_id |-> reviewer_id, reviewed_id |-> reviewed_id,
                 content |-> Sanitize(review_content).text]
  IN  [file |-> save_backup(file, (guild_id :> (uuid :> record)), wr),
       review_id |-> uuid]

\* An exception inside backup_review is logged and None is returned.
backup_review(file, guild_id, reviewer_id, reviewed_id, review_content, uuid, readOk, wr) ==
  LET backup == load_backup(file, readOk)
      withGuild == IF guild_id \in DOMAIN backup THEN backup
                   ELSE (guild_id :> EmptyDict) @@ backup
      record == [reviewer_id |-> reviewer_id, reviewed_id |-> reviewed_id,
                 content |-> Sanitize(review_content).text]
      updated == [withGuild EXCEPT ![guild_id] = (uuid :> record) @@ @]
  IN  IF LoadRaises(file, readOk)
      THEN [file |-> file, review_id |-> None]
      ELSE [file |-> save_backup(file, updated, wr), review_id |-> uuid]

\* The records of the file, as <<guild, review_id, record>>.
StoredRecords(file) ==
  IF file.kind # "dict" THEN {}
  ELSE UNION {{<<g, id, file.data[g][id]>> : id \in DOMAIN file.data[g]} :
              g \in DOMAIN file.data}

\* ------------------------------------------------------------ the reviewee pool
\* The list left whole.
FirstN_Uncapped(S, n) == S

\* members[:25], the list taken in id order.
FirstN(S, n) == {x \in S : Cardinality({y \in S : y < x}) < n}

\* The pool without the bot filters.
Pool_OffersBots(g, role_id) ==
  FirstN(IF role_id # None
         THEN {m \in members[g] : role_id \in userRoles[m]}
         ELSE {m \in members[g] : m \in Elevated}, MaxSelectOptions)

\* UserSelectView.__init__: the members offered in the select menu.
Pool(g, role_id) ==
  LET candidates ==
        IF role_id # None
        THEN IF get_role(g, role_id) # None
             THEN {m \in members[g] :
                     role_id \in userRoles[m] /\ m \notin Bots /\ m # BotId}
             ELSE {}
        ELSE {m \in members[g] : m \notin Bots /\ m # BotId /\ m \in Elevated}
  IN  FirstN(candidates, MaxSelectOptions)

\* ------------------------------------------------------------------ responses
\* interaction.response.send_message(msg) inside on_submit's try: when it
\* raises, the matching except clause sends its own message once more
\* (is_done() is still false), and a second failure is swallowed.
Deliver(msg, r1, r2) ==
  CASE r1 = "ok" -> msg
    [] r1 = "Forbidden" -> IF r2 THEN "perm_error" ELSE "none"
    [] r1 = "HTTPException" -> IF r2 THEN "api_error" ELSE "none"

\* How a response to the interaction can end (a failed response raises
\* discord.HTTPException).
ResponseOutcomes == {"ok", "HTTPException"}

\* -------------------------------------------------------------- review_button
\* ReviewButtonView.review_button: a member clicks the entry-point button.
Click(f) ==
  /\ flow[f].pc = "idle"
  /\ IF f = 1 THEN TRUE ELSE flow[f - 1].pc # "idle"
  /\ \E g \in Guilds, timed_out \in BOOLEAN, sent \in BOOLEAN :
       \E u \in members[g] \ {BotId} :
         /\ flow' = [flow EXCEPT ![f] =
              IF timed_out
              THEN [@ EXCEPT !.pc = "end", !.guild = g, !.user = u, !.outcome = "TimedOut"]
              ELSE IF ~sent
              THEN [@ EXCEPT !.pc = "end", !.guild = g, !.user = u, !.outcome = "ClickFailed"]
              ELSE [@ EXCEPT !.pc = "select", !.guild = g, !.user = u,
                             !.pool = Pool(g, view[g].role_id),
                             !.testimonial_channel_id = view[g].testimonial_channel_id,
                             !.reward_role_id = view[g].reward_role_id]]
  /\ UNCHANGED <<backupFile, nextId, view, members, channels, sendable, roles,
                 userRoles, envEvents>>
  /\ UNCHANGED adminVars
  /\ UNCHANGED sanVars

\* ---------------------------------------------------------------- select_user
SelectOutcome_NoSelfCheck(g, user, value) ==
  IF get_member(g, value) = None THEN "NotFound" ELSE "modal"

SelectOutcome(g, user, value) ==
  LET target_user == get_member(g, value)
  IN  IF target_user = None THEN "NotFound"
      ELSE IF target_user = user THEN "SelfReview"
      ELSE "modal"

\* UserSelectView.select_user: the member picks one of the offered options.
Select(f) ==
  /\ flow[f].pc = "select"
  /\ \E value \in flow[f].pool, sent \in BOOLEAN :
       LET o == SelectOutcome(flow[f].guild, flow[f].user, value)
       IN  flow' = [flow EXCEPT ![f] =
             IF o # "modal"
             THEN [@ EXCEPT !.pc = "end", !.outcome = o, !.target = value, !.pool = {}]
             ELSE IF ~sent
             THEN [@ EXCEPT !.pc = "end", !.outcome = "SelectFailed", !.target = value,
                            !.pool = {}]
             ELSE [@ EXCEPT !.pc = "modal", !.target = value, !.pool = {},
                            !.log = Append(@, "modal")]]
  /\ UNCHANGED <<backupFile, nextId, view, members, channels, sendable, roles,
                 userRoles, envEvents>>
  /\ UNCHANGED adminVars
  /\ UNCHANGED sanVars

\* ------------------------------------------------------------------ on_submit
\* The two content checks made on the sanitized text.
ValidateContent(sanitized_content) ==
  IF Strip(sanitized_content) = <<>> THEN "ContentEmpty"
  ELSE IF Len(sanitized_content) < MinReviewLength THEN "ContentTooShort"
  ELSE "ok"

SuspicionCheck_Rejects(is_suspicious) == IF is_suspicious THEN "Suspicious" ELSE "ok"

\* A suspicious text is logged with a warning and on_submit goes on.
SuspicionCheck(is_suspicious) == "ok"

TargetCheck_Skipped(g, target_user) == "ok"

\* The re-check of the target member.
TargetCheck(g, target_user) ==
  IF target_user = None \/ get_member(g, target_user) = None THEN "TargetGone" ELSE "ok"

ChannelCheck_NoPermissionCheck(g, testimonial_channel_id) ==
  IF get_channel(g, testimonial_channel_id) = None THEN "ChannelMissing" ELSE "ok"

\* The testimonial channel as on_submit resolves it before it posts.
ChannelCheck(g, testimonial_channel_id) ==
  IF get_channel(g, testimonial_channel_id) = None THEN "ChannelMissing"
  ELSE IF testimonial_channel_id \notin sendable THEN "PermissionDenied"
  ELSE "ok"

\* The footer of the posted embed: the id when backup_review returned one.
FooterOf(review_id) == IF review_id # None THEN review_id ELSE None

RejectionMessage(outcome) ==
  CASE outcome = "ContentEmpty" -> "empty"
    [] outcome = "ContentTooShort" -> "too_short"
    [] outcome = "TargetGone" -> "target_gone"
    [] outcome = "ChannelMissing" -> "channel_missing"
    [] outcome = "PermissionDenied" -> "no_send_permission"

\* on_submit returns after answering msg.
Answer(fl, outcome, msg, r1, r2) ==
  [fl EXCEPT !.pc = "end", !.outcome = outcome, !.response = msg,
             !.delivered = Deliver(msg, r1, r2)]

\* ReviewModal.on_submit up to its await of channel.send: sanitize, validate,
\* re-check the target, back up, build the embed, resolve the channel.
on_submit(f, text, readOk, wr) ==
  /\ flow[f].pc = "modal"
  /\ LET sanitized_content == Sanitize(text).text
           is_suspicious == Sanitize(text).suspicious
           fl == [flow[f] EXCEPT !.content = sanitized_content,
                                 !.suspicious = is_suspicious,
                                 !.log = Append(@, "submit")]
           v == ValidateContent(sanitized_content)
           s == SuspicionCheck(is_suspicious)
           t == TargetCheck(fl.guild, fl.target)
       IN  \E r1 \in ResponseOutcomes, r2 \in BOOLEAN :
           IF v # "ok"
           THEN /\ flow' = [flow EXCEPT ![f] = Answer(fl, v, RejectionMessage(v), r1, r2)]
                /\ UNCHANGED <<backupFile, nextId>>
           ELSE IF s # "ok"
           THEN /\ flow' = [flow EXCEPT ![f] = Answer(fl, s, "rejected", r1, r2)]
                /\ UNCHANGED <<backupFile, nextId>>
           ELSE IF t # "ok"
           THEN /\ flow' = [flow EXCEPT ![f] = Answer(fl, t, RejectionMessage(t), r1, r2)]
                /\ UNCHANGED <<backupFile, nextId>>
           ELSE LET b == backup_review(backupFile, fl.guild, fl.user, fl.target,
                                       sanitized_content, nextId + 1, readOk, wr)
                    ch == ChannelCheck(fl.guild, fl.testimonial_channel_id)
                    backed == [fl EXCEPT !.review_id = b.review_id,
                                         !.footer = FooterOf(b.review_id),
                                         !.write = wr,
                                         !.log = Append(@, "backup")]
                IN  /\ backupFile' = b.file
                    /\ nextId' = nextId + 1
                    /\ flow' = [flow EXCEPT ![f] =
                         IF ch # "ok"
                         THEN Answer(backed, ch, RejectionMessage(ch), r1, r2)
                         ELSE [backed EXCEPT !.pc = "posting", !.log = Append(@, "send")]]
  /\ UNCHANGED <<view, members, channels, sendable, roles, userRoles, envEvents>>
  /\ UNCHANGED adminVars
  /\ UNCHANGED sanVars

\* The member submits the modal with one of the texts, and the backup file
\* is read and written or not.
Submit(f) ==
  \E text \in Texts, readOk \in BOOLEAN, wr \in WriteOutcomes :
    on_submit(f, text, readOk, wr)

RewardStep_NoHeldCheck(g, user, reward_role_id) ==
  IF reward_role_id = None THEN "none"
  ELSE IF get_role(g, reward_role_id) = None THEN "no_longer_exists"
  ELSE "grant"

\* What on_submit does about the reward role once the post is out.
RewardStep(g, user, reward_role_id) ==
  IF reward_role_id = None THEN "none"
  ELSE IF get_role(g, reward_role_id) = None THEN "no_longer_exists"
  ELSE IF reward_role_id \in userRoles[user] THEN "already_held"
  ELSE "grant"

AfterPost_GrantAnyway(o, step) ==
  IF step = "grant" THEN "granting"
  ELSE CASE o = "ok" -> "Done"
         [] o = "Forbidden" -> "PostForbidden"
         [] o = "HTTPException" -> "PostFailed"

AfterPost_FailureIgnored(o, step) ==
  CASE o = "ok" /\ step = "grant" -> "granting"
    [] o = "Forbidden" -> "PostForbidden"
    [] OTHER -> "Done"

\* Where on_submit goes when channel.send returns (o = "ok") or raises: on to
\* add_roles, to its last response, or into one of its except clauses.
AfterPost(o, step) ==
  CASE o = "ok" /\ step = "grant" -> "granting"
    [] o = "ok" /\ step # "grant" -> "Done"
    [] o = "Forbidden" -> "PostForbidden"
    [] o = "HTTPException" -> "PostFailed"

\* The platform takes a message for the channel.
PlatformAccepts(c) == c \in channels /\ c \in sendable

\* on_submit from the end of channel.send to its await of add_roles, or to
\* its last response.
PostDone(f) ==
  /\ flow[f].pc = "posting"
  /\ \E o \in CallOutcomes, r1 \in ResponseOutcomes, r2 \in BOOLEAN :
       LET fl == [flow[f] EXCEPT !.log = IF o = "ok" THEN Append(@, "posted") ELSE @]
           step == RewardStep(fl.guild, fl.user, fl.reward_role_id)
           next == AfterPost(o, step)
       IN  /\ o = "ok" => PlatformAccepts(fl.testimonial_channel_id)
           /\ flow' = [flow EXCEPT ![f] =
                CASE next = "granting" ->
                       [fl EXCEPT !.pc = "granting", !.log = Append(@, "grant")]
                  [] next = "Done" ->
                       Answer([fl EXCEPT !.role_message = step], "Done", "success", r1, r2)
                  [] next = "PostForbidden" ->
                       [fl EXCEPT !.pc = "end", !.outcome = next, !.response = "perm_error",
                                  !.delivered = IF r2 THEN "perm_error" ELSE "none"]
                  [] next = "PostFailed" ->
                       [fl EXCEPT !.pc = "end", !.outcome = next, !.response = "api_error",
                                  !.delivered = IF r2 THEN "api_error" ELSE "none"]]
  /\ UNCHANGED <<backupFile, nextId, view, members, channels, sendable, roles,
                 userRoles, envEvents>>
  /\ UNCHANGED adminVars
  /\ UNCHANGED sanVars

AfterGrant_Propagates(o) ==
  CASE o = "ok" -> "Done"
    [] o = "Forbidden" -> "GrantForbidden"
    [] o = "HTTPException" -> "GrantFailed"

\* Where on_submit goes when add_roles returns or raises: the try around the
\* reward step catches discord.Forbidden and discord.HTTPException, so the
\* handler goes on to its last response in every case.
AfterGrant(o) ==
  CASE o = "ok" -> "Done"
    [] o = "Forbidden" -> "Done"
    [] o = "HTTPException" -> "Done"

\* on_submit from the end of add_roles to its last response.
GrantDone(f) ==
  /\ flow[f].pc = "granting"
  /\ \E o \in CallOutcomes, r1 \in ResponseOutcomes, r2 \in BOOLEAN :
       LET fl == flow[f]
           next == AfterGrant(o)
       IN  /\ o = "ok" => /\ get_role(fl.guild, fl.reward_role_id) # None
                          /\ get_member(fl.guild, fl.user) # None
           /\ userRoles' = IF o = "ok"
                           THEN [userRoles EXCEPT ![fl.user] = @ \cup {fl.reward_role_id}]
                           ELSE userRoles
           /\ flow' = [flow EXCEPT ![f] =
                IF next = "Done"
                THEN Answer([fl EXCEPT !.role_message =
                                          CASE o = "ok" -> "awarded"
                                            [] o = "Forbidden" -> "insufficient_permissions"
                                            [] o = "HTTPException" -> "error_assigning",
                                       !.log = IF o = "ok" THEN Append(@, "granted") ELSE @],
                            "Done", "success", r1, r2)
                ELSE [fl EXCEPT !.pc = "end", !.outcome = next,
                                !.response = IF next = "GrantForbidden"
                                             THEN "perm_error" ELSE "api_error",
                                !.delivered = IF ~r2 THEN "none"
                                              ELSE IF next = "GrantForbidden"
                                              THEN "perm_error" ELSE "api_error"]]
  /\ UNCHANGED <<backupFile, nextId, view, members, channels, sendable, roles, envEvents>>
  /\ UNCHANGED adminVars
  /\ UNCHANGED sanVars

\* ------------------------------------------------------------------- platform
MemberLeaves ==
  /\ envEvents < MaxEnvEvents
  /\ \E g \in Guilds : \E u \in members[g] \ {BotId} :
       members' = [members EXCEPT ![g] = @ \ {u}]
  /\ envEvents' = envEvents + 1
  /\ UNCHANGED <<flow, backupFile, nextId, view, channels, sendable, roles, userRoles>>
  /\ UNCHANGED adminVars
  /\ UNCHANGED sanVars

ChannelDeleted ==
  /\ envEvents < MaxEnvEvents
  /\ \E c \in channels : channels' = channels \ {c} /\ sendable' = sendable \ {c}
  /\ envEvents' = envEvents + 1
  /\ UNCHANGED <<flow, backupFile, nextId, view, members, roles, userRoles>>
  /\ UNCHANGED adminVars
  /\ UNCHANGED sanVars

SendRevoked ==
  /\ envEvents < MaxEnvEvents
  /\ \E c \in sendable : sendable' = sendable \ {c}
  /\ envEvents' = envEvents + 1
  /\ UNCHANGED <<flow, backupFile, nextId, view, members, channels, roles, userRoles>>
  /\ UNCHANGED adminVars
  /\ UNCHANGED sanVars

RoleDeleted ==
  /\ envEvents < MaxEnvEvents
  /\ \E r \in roles :
       /\ roles' = roles \ {r}
       /\ userRoles' = [u \in DOMAIN userRoles |-> userRoles[u] \ {r}]
  /\ envEvents' = envEvents + 1
  /\ UNCHANGED <<flow, backupFile, nextId, view, members, channels, sendable>>
  /\ UNCHANGED adminVars
  /\ UNCHANGED sanVars

\* ---------------------------------------------------------------- Settings Store
\* The guilds the bot is configured in, and the commands an administrator
\* may start during a run.
ConfigGuilds == {1, 2}
Slots == {1, 2}
MaxCommands == 3

ReviewChannelOf(g) == 10 * g + 2
GuildChannels(g) == {ChannelOf(g), ReviewChannelOf(g)}
\* The @everyone role carries the id of its guild.
EveryoneRoleOf(g) == g
ManagedRoleOf(g) == 100 * g + 3
BotTopRoleOf(g) == 100 * g + 4
HighRoleOf(g) == 100 * g + 5
\* role.managed, and the place of a role in the guild's hierarchy.
Managed(r) == r % 100 = 3
Position(r) == IF r < 100 THEN 0 ELSE r % 100

\* dict.get
Get(d, k) == IF k \in DOMAIN d THEN d[k] ELSE None

\* A settings or backup file that is missing, is not JSON (text that does
\* not parse, or bytes that are not text), or holds a JSON value that is not
\* an object.
DamagedFiles ==
  { [kind |-> "missing", data |-> EmptyDict],
    [kind |-> "corrupt", data |-> EmptyDict],
    [kind |-> "undecodable", data |-> EmptyDict],
    [kind |-> "nonobject", data |-> <<None>>] }

load_settings(file, readOk) ==
  IF readOk /\ file.kind = "dict" THEN file.data ELSE EmptyDict

save_settings_Swallowed(file, settings, wr) ==
  [file |-> save_backup(file, settings, wr), raised |-> FALSE]

\* save_settings logs a failure and raises it again.
save_settings(file, settings, wr) ==
  [file |-> CASE wr = "ok" -> [kind |-> "dict", data |-> settings]
              [] wr = "open_failed" -> file
              [] wr = "write_failed" -> [kind |-> "corrupt", data |-> EmptyDict],
   raised |-> wr # "ok"]

\* settings[guild_id][key] = value, after settings.setdefault(guild_id, {}).
SetKey(settings, g, key, value) ==
  LET withGuild == IF g \in DOMAIN settings THEN settings
                   ELSE (g :> EmptyDict) @@ settings
  IN  [withGuild EXCEPT ![g] = (key :> value) @@ @]

\* settings.pop(guild_id, None)
DropGuild(settings, g) == [h \in DOMAIN settings \ {g} |-> settings[h]]

\* ReviewButtonView(testimonial_id, role_id, reward_role_id), from a guild's entry.
ViewOf(d) ==
  [testimonial_channel_id |-> Get(d, "testimonial_channel"),
   role_id |-> Get(d, "reviewable_role"),
   reward_role_id |-> Get(d, "reward_role")]

\* The checks on the channel argument of a settings command.
ChannelArgCheck(channel) ==
  IF channel = None THEN "provide_channel"
  ELSE IF channel \notin sendable THEN "no_permission_channel"
  ELSE "ok"

RoleCheck_NoHierarchy(g, action, role) ==
  IF role = None THEN "provide_role"
  ELSE IF role = EveryoneRoleOf(g) THEN "everyone_role"
  ELSE IF Managed(role) THEN "managed_role"
  ELSE "ok"

\* The checks on the role argument of set_reviewable_role and set_reward_role.
RoleCheck(g, action, role) ==
  IF role = None THEN "provide_role"
  ELSE IF role = EveryoneRoleOf(g) THEN "everyone_role"
  ELSE IF Managed(role) THEN "managed_role"
  ELSE IF action = "set_reward_role" /\ Position(role) >= Position(BotTopRoleOf(g))
  THEN "role_too_high"
  ELSE "ok"

AfterSave_AlwaysReposts(action, g, settings) ==
  IF g \in DOMAIN settings /\ Get(settings[g], "testimonial_channel") # None
  THEN "send"
  ELSE "cleared"

\* What settings_command does once its change is saved: it answers, or, for
\* set_review_channel with a testimonial channel on record, posts the
\* entry-point message first ("send").
AfterSave(action, g, settings) ==
  CASE action = "set_review_channel" ->
         LET testimonial_id == Get(settings[g], "testimonial_channel")
         IN  IF testimonial_id = None THEN "review_set_no_testimonial"
             ELSE IF get_channel(g, testimonial_id) = None
             THEN "review_set_testimonial_invalid"
             ELSE "send"
    [] action = "set_testimonial_channel" -> "testimonial_set"
    [] action = "set_reviewable_role" -> "reviewable_role_set"
    [] action = "set_reward_role" -> "reward_role_set"
    [] action = "clear" -> "cleared"

\* The commands an administrator of guild g can issue through /settings.
SettingsCommands(g) ==
  {[action |-> "set_review_channel", channel |-> c, role |-> None] :
     c \in {None} \cup ({ReviewChannelOf(g)} \cap channels)}
  \cup {[action |-> "set_testimonial_channel", channel |-> c, role |-> None] :
     c \in {ChannelOf(g)} \cap channels}
  \cup {[action |-> "set_reviewable_role", channel |-> None, role |-> r] :
     r \in {EveryoneRoleOf(g), ManagedRoleOf(g), StaffRoleOf(g)}}
  \cup {[action |-> "set_reward_role", channel |-> None, role |-> r] :
     r \in {EveryoneRoleOf(g), ManagedRoleOf(g), BotTopRoleOf(g), HighRoleOf(g),
            RewardRoleOf(g)}}
  \cup {[action |-> "clear", channel |-> None, role |-> None],
        [action |-> "list", channel |-> None, role |-> None]}

\* settings_command up to its response, or up to its await of channel.send
\* (result "send"): the file it leaves, its own copy of the settings, and
\* how its save ended.
settings_command(file, g, c, readOk, wr) ==
  LET settings == load_settings(file, readOk)
      Rejected(msg) ==
        [file |-> file, settings |-> settings, result |-> msg, save |-> "none"]
      Saved(new) ==
        LET s == save_settings(file, new, wr)
        IN  [file |-> s.file, settings |-> new,
             result |-> IF s.raised THEN "unexpected_error"
                        ELSE AfterSave(c.action, g, new),
             save |-> IF wr = "ok" THEN "ok" ELSE "failed"]
  IN  CASE LoadRaises(file, readOk) -> Rejected("unexpected_error")
        [] c.action = "set_review_channel" ->
             IF ChannelArgCheck(c.channel) # "ok"
             THEN Rejected(ChannelArgCheck(c.channel))
             ELSE Saved(SetKey(settings, g, "review_channel", c.channel))
        [] c.action = "set_testimonial_channel" ->
             IF ChannelArgCheck(c.channel) # "ok"
             THEN Rejected(ChannelArgCheck(c.channel))
             ELSE Saved(SetKey(settings, g, "testimonial_channel", c.channel))
        [] c.action = "set_reviewable_role" ->
             IF RoleCheck(g, c.action, c.role) # "ok"
             THEN Rejected(RoleCheck(g, c.action, c.role))
             ELSE Saved(SetKey(settings, g, "reviewable_role", c.role))
        [] c.action = "set_reward_role" ->
             IF RoleCheck(g, c.action, c.role) # "ok"
             THEN Rejected(RoleCheck(g, c.action, c.role))
             ELSE Saved(SetKey(settings, g, "reward_role", c.role))
        [] c.action = "clear" -> Saved(DropGuild(settings, g))
        [] c.action = "list" -> Rejected("settings_list")

\* generate_review_post up to its response or its await of review_channel.send.
generate_review_post(file, g, readOk) ==
  LET settings == load_settings(file, readOk)
      d == IF g \in DOMAIN settings THEN settings[g] ELSE EmptyDict
      review_channel_id == Get(d, "review_channel")
      testimonial_channel_id == Get(d, "testimonial_channel")
  IN  [settings |-> settings, channel |-> review_channel_id,
       result |->
         IF LoadRaises(file, readOk) THEN "unexpected_error"
         ELSE IF g \notin DOMAIN settings \/ "review_channel" \notin DOMAIN d
            \/ "testimonial_channel" \notin DOMAIN d
         THEN "must_set_channels"
         ELSE IF get_channel(g, review_channel_id) = None THEN "review_channel_not_found"
         ELSE IF get_channel(g, testimonial_channel_id) = None
         THEN "testimonial_channel_not_found"
         ELSE IF review_channel_id \notin sendable THEN "no_permission_review"
         ELSE IF testimonial_channel_id \notin sendable THEN "no_permission_testimonial"
         ELSE "send"]

\* The message id put into the settings as the file holds them now.
entry_posted_Reloads(file, settings, g, message_id, wr, okmsg) ==
  LET new == SetKey(load_settings(file, TRUE), g, "review_message_id", message_id)
      s == save_settings(file, new, wr)
  IN  [file |-> s.file,
       result |-> IF s.raised THEN "unexpected_error" ELSE okmsg,
       save |-> IF wr = "ok" THEN "ok" ELSE "failed"]

\* Both commands once the entry-point message is out: the message id is
\* put into the command's own copy of the settings, which is saved.
entry_posted(file, settings, g, message_id, wr, okmsg) ==
  LET new == SetKey(settings, g, "review_message_id", message_id)
      s == save_settings(file, new, wr)
  IN  [file |-> s.file,
       result |-> IF s.raised THEN "unexpected_error" ELSE okmsg,
       save |-> IF wr = "ok" THEN "ok" ELSE "failed"]

setup_hook_StopsAtFailure(settings, failing) ==
  LET eligible == {g \in DOMAIN settings :
                     /\ Get(settings[g], "testimonial_channel") # None
                     /\ Get(settings[g], "review_message_id") # None}
      attached == {g \in eligible : \A h \in eligible \cap failing : g < h}
  IN  [m \in {settings[g]["review_message_id"] : g \in attached} |->
         ViewOf(settings[CHOOSE g \in attached : settings[g]["review_message_id"] = m])]

\* ReviewBot.setup_hook: the views registered at start; add_view raises for
\* the guilds of failing.
setup_hook(settings, failing) ==
  LET eligible == {g \in DOMAIN settings :
                     /\ Get(settings[g], "testimonial_channel") # None
                     /\ Get(settings[g], "review_message_id") # None}
      attached == eligible \ failing
  IN  [m \in {settings[g]["review_message_id"] : g \in attached} |->
         ViewOf(settings[CHOOSE g \in attached : settings[g]["review_message_id"] = m])]

\* The results a command reaches through one of its except clauses.
ErrorResults == {"unexpected_error", "perm_error", "api_error"}

\* The response of a settings, generate or backup_info command.  A response
\* that raises inside the try is answered by the except clause with one more
\* send_message; a send_message that raises inside an except clause leaves
\* the handler.
Reply(msg, r1, r2) ==
  IF r1 = "ok" THEN [delivered |-> msg, acks |-> 1, escaped |-> FALSE]
  ELSE IF msg \in ErrorResults \/ ~r2
  THEN [delivered |-> "none", acks |-> 0, escaped |-> TRUE]
  ELSE [delivered |-> "api_error", acks |-> 1, escaped |-> FALSE]

\* How the response of a command can go: sent; refused, and the message
\* of the except clause sent; refused both times.
Replies == {<<"ok", TRUE>>, <<"HTTPException", TRUE>>, <<"HTTPException", FALSE>>}

IdleCmd ==
  [pc |-> "idle", action |-> "none", guild |-> None, channel |-> None,
   settings |-> EmptyDict]

NoLast ==
  [action |-> "none", guild |-> None, channel |-> None, role |-> None,
   response |-> "none", delivered |-> "none", acks |-> 0, escaped |-> FALSE,
   save |-> "none", read |-> TRUE, posted |-> None, failed |-> {}, lost |-> {}]

Finished(action, g, channel, role, result, save, readOk, posted, r1, r2) ==
  LET r == Reply(result, r1, r2)
  IN  [action |-> action, guild |-> g, channel |-> channel, role |-> role,
       response |-> result, delivered |-> r.delivered, acks |-> r.acks,
       escaped |-> r.escaped, save |-> save, read |-> readOk, posted |-> posted,
       failed |-> {}, lost |-> {}]

\* The key a set command writes.
KeyOf ==
  ("set_testimonial_channel" :> "testimonial_channel")
  @@ ("set_reviewable_role" :> "reviewable_role")
  @@ ("set_reward_role" :> "reward_role")

\* The entry of guild g in a settings file.
EntryOf(file, g) ==
  IF file.kind = "dict" /\ g \in DOMAIN file.data THEN file.data[g] ELSE EmptyDict

\* What a save that turns file into new takes away from the command that
\* finished last: the key that command saved for guild g and confirmed to
\* its administrator, when file holds its value and new does not.
LostFields(prev, file, new, g) ==
  IF /\ prev.action \in DOMAIN KeyOf /\ prev.guild = g
     /\ prev.save = "ok" /\ prev.acks = 1 /\ prev.delivered = prev.response
     /\ file.kind = "dict" /\ new.kind = "dict"
  THEN LET value == IF prev.action = "set_testimonial_channel"
                    THEN prev.channel ELSE prev.role
       IN  {k \in {KeyOf[prev.action]} :
              Get(EntryOf(file, g), k) = value /\ Get(EntryOf(new, g), k) # value}
  ELSE {}

flowVars == <<flow, backupFile, nextId, view, members, roles, userRoles>>

\* settings_command, whole or up to its await of channel.send.
SettingsCommand(a) ==
  /\ cmd[a].pc = "idle"
  /\ IF a = 1 THEN TRUE ELSE cmd[a - 1].pc # "idle"
  /\ steps < MaxCommands
  /\ \E g \in ConfigGuilds : \E c \in SettingsCommands(g) :
       \E wr \in IF settings_command(settingsFile, g, c, TRUE, "ok").save = "none"
                 THEN {"ok"} ELSE WriteOutcomes :
         LET s == settings_command(settingsFile, g, c, TRUE, wr)
         IN  /\ settingsFile' = s.file
             /\ IF s.result = "send"
                THEN /\ cmd' = [cmd EXCEPT ![a] =
                          [pc |-> "sending", action |-> c.action, guild |-> g,
                           channel |-> c.channel, settings |-> s.settings]]
                     /\ last' = last
                ELSE /\ cmd' = cmd
                     /\ \E r \in Replies :
                          last' = Finished(c.action, g, c.channel, c.role, s.result,
                                           s.save, TRUE, None, r[1], r[2])
  /\ steps' = steps + 1
  /\ UNCHANGED <<registry, livePost, nextMsg, channels, sendable, envEvents>>
  /\ UNCHANGED flowVars
  /\ UNCHANGED sanVars

\* generate_review_post, whole or up to its await of review_channel.send.
Generate(a) ==
  /\ cmd[a].pc = "idle"
  /\ IF a = 1 THEN TRUE ELSE cmd[a - 1].pc # "idle"
  /\ steps < MaxCommands
  /\ \E g \in ConfigGuilds :
       LET s == generate_review_post(settingsFile, g, TRUE)
       IN  IF s.result = "send"
           THEN /\ cmd' = [cmd EXCEPT ![a] =
                     [pc |-> "sending", action |-> "generate", guild |-> g,
                      channel |-> s.channel, settings |-> s.settings]]
                /\ last' = last
           ELSE /\ cmd' = cmd
                /\ \E r \in Replies :
                     last' = Finished("generate", g, None, None, s.result, "none",
                                      TRUE, None, r[1], r[2])
  /\ steps' = steps + 1
  /\ UNCHANGED <<settingsFile, registry, livePost, nextMsg, channels, sendable, envEvents>>
  /\ UNCHANGED flowVars
  /\ UNCHANGED sanVars

\* Either command from the end of its channel.send to its response.
EntryPosted(a) ==
  /\ cmd[a].pc = "sending"
  /\ \E o \in CallOutcomes, r \in Replies :
       \E wr \in IF o = "ok" THEN WriteOutcomes ELSE {"ok"} :
       LET c == cmd[a]
           message_id == nextMsg + 1
           e == entry_posted(settingsFile, c.settings, c.guild, message_id, wr,
                             IF c.action = "generate" THEN "generated"
                             ELSE "review_set_posted")
       IN  /\ o = "ok" => PlatformAccepts(c.channel)
           /\ IF o = "ok"
              THEN /\ nextMsg' = message_id
                   /\ livePost' = [livePost EXCEPT ![c.guild] = message_id]
                   /\ registry' = (message_id :> ViewOf(c.settings[c.guild])) @@ registry
                   /\ settingsFile' = e.file
                   /\ last' = [Finished(c.action, c.guild, c.channel, None, e.result,
                                        e.save, TRUE, message_id, r[1], r[2])
                                 EXCEPT !.lost = LostFields(last, settingsFile,
                                                            e.file, c.guild)]
              ELSE /\ UNCHANGED <<nextMsg, livePost, registry, settingsFile>>
                   /\ last' = Finished(c.action, c.guild, c.channel, None,
                                       IF o = "Forbidden" THEN "perm_error" ELSE "api_error",
                                       "none", TRUE, None, r[1], r[2])
  /\ cmd' = [cmd EXCEPT ![a] = IdleCmd]
  /\ UNCHANGED <<steps, channels, sendable, envEvents>>
  /\ UNCHANGED flowVars
  /\ UNCHANGED sanVars

\* backup_info
BackupInfo ==
  /\ steps < MaxCommands
  /\ \E g \in ConfigGuilds, readOk \in BOOLEAN, r \in Replies :
       LET backup == load_backup(backupFile, readOk)
           result == IF LoadRaises(backupFile, readOk) THEN "unexpected_error"
                     ELSE IF g \notin DOMAIN backup \/ backup[g] = EmptyDict
                     THEN "no_backups" ELSE "backup_stats"
       IN  last' = Finished("backup_info", g, None, None, result, "none", readOk,
                            None, r[1], r[2])
  /\ steps' = steps + 1
  /\ UNCHANGED <<settingsFile, registry, livePost, nextMsg, cmd, channels, sendable,
                 envEvents>>
  /\ UNCHANGED flowVars
  /\ UNCHANGED sanVars

\* The process starts again: the module creates a missing settings file,
\* the views and the commands in flight are gone, and setup_hook runs (an
\* exception of load_settings leaves setup_hook before any view is attached).
Restart ==
  /\ steps < MaxCommands
  /\ LET file == IF settingsFile.kind = "missing"
                 THEN [kind |-> "dict", data |-> EmptyDict] ELSE settingsFile
     IN  \E readOk \in BOOLEAN :
           LET settings == load_settings(file, readOk)
           IN  \E failing \in SUBSET {g \in DOMAIN settings :
                                        /\ Get(settings[g], "testimonial_channel") # None
                                        /\ Get(settings[g], "review_message_id") # None} :
                 /\ settingsFile' = file
                 /\ registry' = IF LoadRaises(file, readOk) THEN EmptyDict
                                ELSE setup_hook(settings, failing)
                 /\ last' = [NoLast EXCEPT !.action = "setup_hook", !.read = readOk,
                                           !.failed = failing,
                                           !.escaped = LoadRaises(file, readOk)]
  /\ cmd' = [a \in Slots |-> IdleCmd]
  /\ steps' = steps + 1
  /\ UNCHANGED <<livePost, nextMsg, channels, sendable, envEvents>>
  /\ UNCHANGED flowVars
  /\ UNCHANGED sanVars

\* The settings file is removed or overwritten from outside the program.
Tamper ==
  /\ envEvents < MaxEnvEvents
  /\ \E d \in DamagedFiles : settingsFile' = d
  /\ last' = [NoLast EXCEPT !.action = "tamper"]
  /\ envEvents' = envEvents + 1
  /\ UNCHANGED <<registry, livePost, nextMsg, cmd, steps, channels, sendable>>
  /\ UNCHANGED flowVars
  /\ UNCHANGED sanVars

\* ------------------------------------------------------------ specification
\* The bot is up with an empty backup file; each guild was configured by its
\* administrator and its entry-point message carries a registered view.
Init ==
  /\ flow = [f \in Flows |-> IdleFlow]
  /\ backupFile = [kind |-> "dict", data |-> EmptyDict]
  /\ nextId = 0
  /\ view \in [Guilds -> [testimonial_channel_id : AllChannels,
                          role_id : {None} \cup AllRoles,
                          reward_role_id : {None} \cup AllRoles]]
  /\ \A g \in Guilds :
       /\ view[g].testimonial_channel_id = ChannelOf(g)
       /\ view[g].role_id = StaffRoleOf(g)
       /\ view[g].reward_role_id \in {None, RewardRoleOf(g)}
  /\ members = [g \in Guilds |-> Users \cup {BotId}]
  /\ channels = AllChannels
  /\ sendable = AllChannels
  /\ roles = AllRoles
  /\ userRoles = [u \in Users \cup {BotId} |->
                    IF u \in Staff THEN {StaffRoleOf(g) : g \in Guilds} ELSE {}]
  /\ envEvents = 0
  /\ settingsFile =
       [kind |-> "dict",
        data |-> [g \in Guilds |->
                   LET d == ("review_channel" :> ReviewChannelOf(g))
                            @@ ("testimonial_channel" :> view[g].testimonial_channel_id)
                            @@ ("reviewable_role" :> view[g].role_id)
                            @@ ("review_message_id" :> g)
                   IN  IF view[g].reward_role_id = None THEN d
                       ELSE ("reward_role" :> view[g].reward_role_id) @@ d]]
  /\ registry = [g \in Guilds |-> view[g]]
  /\ livePost = [g \in ConfigGuilds |-> IF g \in Guilds THEN g ELSE None]
  /\ nextMsg = Cardinality(Guilds)
  /\ cmd = [a \in Slots |-> IdleCmd]
  /\ last = NoLast
  /\ steps = 0
  /\ raw = <<>>
  /\ clean = NotRun

Next ==
  \/ \E f \in Flows : Click(f)
  \/ \E f \in Flows : Select(f)
  \/ \E f \in Flows : Submit(f)
  \/ \E f \in Flows : PostDone(f)
  \/ \E f \in Flows : GrantDone(f)
  \/ MemberLeaves
  \/ ChannelDeleted
  \/ SendRevoked
  \/ RoleDeleted

Spec == Init /\ [][Next]_vars

\* The event loop resumes a handler once the platform call it awaits has
\* returned or raised.
FairSpec ==
  Spec /\ \A f \in Flows : WF_vars(PostDone(f)) /\ WF_vars(GrantDone(f))

\* The bot is up with no command in flight; the administrators have either
\* configured nothing yet or set both channels of every guild (the review
\* channel first, so that no entry-point message is out), and one review of
\* guild 1 is on record.
AdminInit ==
  /\ flow = [f \in Flows |-> IdleFlow]
  /\ backupFile =
       [kind |-> "dict",
        data |-> (1 :> (1 :> [reviewer_id |-> 2, reviewed_id |-> 1,
                              content |-> Rep("a", MinReviewLength)]))]
  /\ nextId = 1
  /\ view = [g \in Guilds |-> [testimonial_channel_id |-> ChannelOf(g),
                                role_id |-> StaffRoleOf(g), reward_role_id |-> None]]
  /\ members = [g \in Guilds |-> Users \cup {BotId}]
  /\ channels = UNION {GuildChannels(g) : g \in ConfigGuilds}
  /\ sendable = UNION {GuildChannels(g) : g \in ConfigGuilds}
  /\ roles = AllRoles
  /\ userRoles = [u \in Users \cup {BotId} |->
                    IF u \in Staff THEN {StaffRoleOf(g) : g \in Guilds} ELSE {}]
  /\ envEvents = 0
  /\ settingsFile \in
       { [kind |-> "dict", data |-> EmptyDict],
         [kind |-> "dict",
          data |-> [g \in ConfigGuilds |->
                     ("review_channel" :> ReviewChannelOf(g))
                     @@ ("testimonial_channel" :> ChannelOf(g))]] }
  /\ registry = EmptyDict
  /\ livePost = [g \in ConfigGuilds |-> None]
  /\ nextMsg = 0
  /\ cmd = [a \in Slots |-> IdleCmd]
  /\ last = NoLast
  /\ steps = 0
  /\ raw = <<>>
  /\ clean = NotRun

AdminNext ==
  \/ \E a \in Slots : SettingsCommand(a)
  \/ \E a \in Slots : Generate(a)
  \/ \E a \in Slots : EntryPosted(a)
  \/ BackupInfo
  \/ Restart
  \/ Tamper

AdminSpec == AdminInit /\ [][AdminNext]_vars

\* A guild of up to MaxMembers human members, the first k of them holding the
\* staff role, with this bot and possibly one more bot account, both holding
\* the staff role and elevated permissions; the reviewable role is set or not.
PoolInit ==
  /\ flow = [f \in Flows |-> IdleFlow]
  /\ backupFile = [kind |-> "dict", data |-> EmptyDict]
  /\ nextId = 0
  /\ \E role_id \in {None} \cup {StaffRoleOf(g) : g \in Guilds} :
       view = [g \in Guilds |-> [testimonial_channel_id |-> ChannelOf(g),
                                  role_id |-> role_id, reward_role_id |-> None]]
  /\ channels = AllChannels
  /\ sendable = AllChannels
  /\ roles = AllRoles
  /\ \E n \in 0..MaxMembers, bots \in {{BotId}, Bots} : \E k \in 0..n :
       /\ members = [g \in Guilds |-> {m \in ManyUsers : m <= 10 + n} \cup bots]
       /\ userRoles = [u \in ManyUsers \cup Bots |->
                         IF u <= 10 + k THEN {StaffRoleOf(g) : g \in Guilds} ELSE {}]
  /\ envEvents = 0
  /\ settingsFile =
       [kind |-> "dict",
        data |-> [g \in Guilds |->
                   LET d == ("review_channel" :> ReviewChannelOf(g))
                            @@ ("testimonial_channel" :> view[g].testimonial_channel_id)
                            @@ ("review_message_id" :> g)
                   IN  IF view[g].role_id = None THEN d
                       ELSE ("reviewable_role" :> view[g].role_id) @@ d]]
  /\ registry = [g \in Guilds |-> view[g]]
  /\ livePost = [g \in ConfigGuilds |-> IF g \in Guilds THEN g ELSE None]
  /\ nextMsg = Cardinality(Guilds)
  /\ cmd = [a \in Slots |-> IdleCmd]
  /\ last = NoLast
  /\ steps = 0
  /\ raw = <<>>
  /\ clean = NotRun

PoolNext == \E f \in {1} : Click(f)

PoolSpec == PoolInit /\ [][PoolNext]_vars

\* The review flows with the members typing one of the two texts of
\* SuspectTexts.
SuspectNext ==
  \/ \E f \in Flows : Click(f)
  \/ \E f \in Flows : Select(f)
  \/ \E f \in Flows : \E text \in SuspectTexts, readOk \in BOOLEAN, wr \in WriteOutcomes :
       on_submit(f, text, readOk, wr)
  \/ \E f \in Flows : PostDone(f)
  \/ \E f \in Flows : GrantDone(f)
  \/ MemberLeaves
  \/ ChannelDeleted
  \/ SendRevoked
  \/ RoleDeleted

SuspectSpec == Init /\ [][SuspectNext]_vars

\* The review flows with every read and write of the backup file succeeding.
StoreOkNext ==
  \/ \E f \in Flows : Click(f)
  \/ \E f \in Flows : Select(f)
  \/ \E f \in Flows : \E text \in Texts : on_submit(f, text, TRUE, "ok")
  \/ \E f \in Flows : PostDone(f)
  \/ \E f \in Flows : GrantDone(f)
  \/ MemberLeaves
  \/ ChannelDeleted
  \/ SendRevoked
  \/ RoleDeleted

StoreOkSpec == Init /\ [][StoreOkNext]_vars

\* One member goes through the review flow from the entry-point message
\* that is already posted, while the administrators run settings commands.
DriveNext ==
  \/ \E f \in {1} : Click(f)
  \/ \E f \in {1} : Select(f)
  \/ \E f \in {1} : \E text \in SuspectTexts : on_submit(f, text, TRUE, "ok")
  \/ \E f \in {1} : PostDone(f)
  \/ \E f \in {1} : GrantDone(f)
  \/ \E a \in {1} : SettingsCommand(a)

DriveSpec == Init /\ [][DriveNext]_vars

\* sanitize_content is called with one of the raw texts.
SanitizeInit ==
  /\ flow = [f \in Flows |-> IdleFlow]
  /\ backupFile = [kind |-> "dict", data |-> EmptyDict]
  /\ nextId = 0
  /\ view = [g \in Guilds |-> [testimonial_channel_id |-> ChannelOf(g),
                                role_id |-> StaffRoleOf(g), reward_role_id |-> None]]
  /\ members = [g \in Guilds |-> Users \cup {BotId}]
  /\ channels = AllChannels
  /\ sendable = AllChannels
  /\ roles = AllRoles
  /\ userRoles = [u \in Users \cup {BotId} |->
                    IF u \in Staff THEN {StaffRoleOf(g) : g \in Guilds} ELSE {}]
  /\ envEvents = 0
  /\ settingsFile = [kind |-> "dict", data |-> EmptyDict]
  /\ registry = EmptyDict
  /\ livePost = [g \in ConfigGuilds |-> None]
  /\ nextMsg = 0
  /\ cmd = [a \in Slots |-> IdleCmd]
  /\ last = NoLast
  /\ steps = 0
  /\ raw \in RawInputs
  /\ clean = NotRun

SanitizeContent ==
  /\ ~clean.ran
  /\ clean' = [text |-> sanitize_content(raw).text,
               suspicious |-> sanitize_content(raw).suspicious, ran |-> TRUE]
  /\ UNCHANGED <<raw, channels, sendable, envEvents>>
  /\ UNCHANGED flowVars
  /\ UNCHANGED adminVars

SanitizeNext == SanitizeContent

SanitizeSpec == SanitizeInit /\ [][SanitizeNext]_vars

\* ------------------------------------------------------------------ the claims
Has(log, e) == \E i \in 1..Len(log) : log[i] = e
CountOf(log, e) == Cardinality({i \in 1..Len(log) : log[i] = e})
\* Every b of the log has an a before it.
Before(log, a, b) ==
  \A j \in 1..Len(log) : log[j] = b => \E i \in 1..(j - 1) : log[i] = a
\* The step is on_submit's first part, run by flow f.
Submits(f) == flow[f].pc = "modal" /\ flow'[f].pc # "modal"
PostingFailures == {"ChannelMissing", "PermissionDenied", "PostForbidden", "PostFailed"}
ContentRejections == {"ContentEmpty", "ContentTooShort"}

\* C1: in every submission channel.send is called only after backup_review
\* was called, and add_roles is called only after channel.send returned: a
\* post that failed or was skipped is never followed by a grant attempt.
C1_BackupThenPostThenGrant ==
  \A f \in Flows :
    /\ Before(flow[f].log, "backup", "send")
    /\ Before(flow[f].log, "send", "posted")
    /\ Before(flow[f].log, "posted", "grant")

C1_Witness ==
  \E f \in Flows : flow[f].outcome = "Done" /\ Has(flow[f].log, "granted")

\* C2 as stated: a submission that has ended and has added a record to the
\* Backup Store, or has granted the role, has sent its public post.
C2_NeverBackedUpButNotPosted ==
  \A f \in Flows :
    (flow[f].pc = "end" /\ (flow[f].write = "ok" \/ Has(flow[f].log, "granted")))
      => Has(flow[f].log, "posted")

\* C2, amended: a grant is attempted only by a submission whose post is out
\* and a submission ends as Done only with its post out; a submission that
\* added a backup record ends without a post exactly when the posting step
\* failed (channel missing, no send permission, or the send raised).
C2_OnlyPostingFailureLeavesBackupAlone ==
  \A f \in Flows :
    /\ Has(flow[f].log, "grant") => Has(flow[f].log, "posted")
    /\ flow[f].outcome = "Done" => Has(flow[f].log, "posted")
    /\ (flow[f].pc = "end" /\ Has(flow[f].log, "backup"))
         => (~Has(flow[f].log, "posted") <=> flow[f].outcome \in PostingFailures)

C2_Witness ==
  \E f \in Flows :
    /\ flow[f].pc = "end" /\ flow[f].outcome = "ChannelMissing" /\ flow[f].write = "ok"
    /\ \E r \in StoredRecords(backupFile) : r[2] = flow[f].review_id

C3_State ==
  \A f \in Flows :
    /\ CountOf(flow[f].log, "backup") <= 1
    /\ CountOf(flow[f].log, "posted") <= 1
    /\ flow[f].outcome = "Done" =>
         /\ CountOf(flow[f].log, "posted") = 1
         /\ Before(flow[f].log, "backup", "posted")
    /\ Has(flow[f].log, "posted") => (flow[f].pc = "granting" \/ flow[f].outcome = "Done")

C3_Step ==
  \A f \in Flows :
    (Submits(f) /\ Has(flow'[f].log, "backup")) =>
      LET fl == flow'[f]
          mine == {r \in StoredRecords(backupFile') : r[2] = fl.review_id}
      IN  /\ \A r \in StoredRecords(backupFile) : r[2] # fl.review_id
          /\ IF fl.write = "ok"
             THEN mine = {<<fl.guild, fl.review_id,
                            [reviewer_id |-> fl.user, reviewed_id |-> fl.target,
                             content |-> fl.content]>>}
             ELSE mine = {}
          /\ fl.pc = "posting" <=> PlatformAccepts(fl.testimonial_channel_id)

\* C3: a submission that ends as Done made exactly one public post, after
\* its one backup attempt; the backup step adds exactly one record (under a
\* fresh id, holding this submission) when the write succeeds and none when
\* it fails, and in both cases goes on to post whenever the channel can be
\* posted to; once the post is out the reward step follows.
C3_OneRecordOnePost == []C3_State /\ [][C3_Step]_vars

C3_Witness ==
  \E f \in Flows :
    /\ flow[f].write \in {"open_failed", "write_failed"}
    /\ flow[f].outcome = "Done"
    /\ Has(flow[f].log, "granted")

\* C4: the Backup Store is append-only: no step removes or changes a record
\* that is in the file.
C4_AppendOnly ==
  [][StoredRecords(backupFile) \subseteq StoredRecords(backupFile')]_vars

\* C5: when the backup append fails the pipeline goes on with no record id:
\* the embed footer shows an id only if a record with that id was written.
C5_NoIdUnlessRecorded ==
  \A f \in Flows :
    (Has(flow[f].log, "backup") /\ flow[f].write # "ok")
      => (flow[f].review_id = None /\ flow[f].footer = None)

\* C6: a selection of oneself ends the flow before a modal is opened, so no
\* submission, post or record has the reviewer as the reviewed member.
C6_NoSelfReview ==
  /\ \A r \in StoredRecords(backupFile) : r[3].reviewer_id # r[3].reviewed_id
  /\ \A f \in Flows :
       /\ Has(flow[f].log, "modal") => flow[f].target # flow[f].user
       /\ (flow[f].target # None /\ flow[f].target = flow[f].user)
            => (/\ flow[f].pc = "end"
                /\ flow[f].outcome \in {"SelfReview", "NotFound"}
                /\ flow[f].log = <<>>)

C6_Witness ==
  \E f \in Flows : flow[f].pc = "end" /\ flow[f].outcome = "SelfReview"

C7_State ==
  \A f \in Flows :
    /\ CountOf(flow[f].log, "grant") <= 1
    /\ flow[f].role_message = "already_held" => ~Has(flow[f].log, "grant")

C7_Step ==
  \A f \in Flows :
    /\ CountOf(flow'[f].log, "grant") > CountOf(flow[f].log, "grant")
         => flow[f].reward_role_id \notin userRoles[flow[f].user]
    /\ (/\ flow[f].pc = "posting"
        /\ Has(flow'[f].log, "posted")
        /\ flow[f].reward_role_id \in userRoles[flow[f].user])
         => (flow'[f].outcome = "Done" /\ flow'[f].role_message = "already_held")

\* C7: add_roles is called at most once per submission, and never for a
\* submitter who holds the reward role when the reward step runs: that
\* submission ends with the "already held" note.
C7_GrantOnceNeverIfHeld == []C7_State /\ [][C7_Step]_vars

C7_Witness ==
  \E f \in Flows : flow[f].outcome = "Done" /\ flow[f].role_message = "already_held"

C8_State ==
  \A f \in Flows :
    flow[f].outcome \in {"ChannelMissing", "PermissionDenied"} =>
      /\ flow[f].pc = "end"
      /\ ~Has(flow[f].log, "send") /\ ~Has(flow[f].log, "posted")
      /\ ~Has(flow[f].log, "grant")
      /\ flow[f].response = (IF flow[f].outcome = "ChannelMissing"
                             THEN "channel_missing" ELSE "no_send_permission")
      /\ flow[f].delivered \in {flow[f].response, "api_error", "none"}

C8_Step ==
  \A f \in Flows :
    (Submits(f) /\ ~PlatformAccepts(flow[f].testimonial_channel_id)) =>
      /\ flow'[f].pc = "end"
      /\ flow'[f].outcome \in ContentRejections \cup
                              {"TargetGone", "ChannelMissing", "PermissionDenied"}
      /\ Has(flow'[f].log, "backup") =>
           flow'[f].outcome = (IF flow[f].testimonial_channel_id \notin channels
                               THEN "ChannelMissing" ELSE "PermissionDenied")

\* C8: a submission made while the testimonial channel does not resolve, or
\* while the bot may not send there, ends in on_submit's first part as a
\* failure: nothing is posted, no grant is attempted, and the handler
\* answers with the channel-missing or the no-permission message (a content
\* or target rejection when one of those checks fails first).
C8_ChannelFailureIsTerminal == []C8_State /\ [][C8_Step]_vars

C8_Witness ==
  \E f \in Flows :
    /\ flow[f].outcome = "ChannelMissing" /\ flow[f].delivered = "channel_missing"
    /\ flow[f].write = "ok"

\* C9 as stated: a submission whose target no longer resolves fails with
\* TargetGone, writes no record, posts nothing and grants nothing.
C9_TargetGoneAlways ==
  [][\A f \in Flows :
       (Submits(f) /\ get_member(flow[f].guild, flow[f].target) = None) =>
         /\ flow'[f].outcome = "TargetGone"
         /\ backupFile' = backupFile
         /\ ~Has(flow'[f].log, "backup") /\ ~Has(flow'[f].log, "send")]_vars

\* C9, amended: a submission whose target no longer resolves ends at once,
\* writes no record, posts nothing and grants nothing; it fails with
\* TargetGone when its content passes the content checks, and with the
\* content rejection otherwise (the content is checked first).
C9_TargetGoneAfterContentChecks ==
  [][\A f \in Flows :
       (Submits(f) /\ get_member(flow[f].guild, flow[f].target) = None) =>
         /\ flow'[f].pc = "end"
         /\ flow'[f].outcome = (IF ValidateContent(flow'[f].content) = "ok"
                                THEN "TargetGone"
                                ELSE ValidateContent(flow'[f].content))
         /\ backupFile' = backupFile
         /\ ~Has(flow'[f].log, "backup") /\ ~Has(flow'[f].log, "send")
         /\ ~Has(flow'[f].log, "posted") /\ ~Has(flow'[f].log, "grant")]_vars

C9_Witness ==
  \E f \in Flows :
    /\ flow[f].outcome = "TargetGone" /\ flow[f].response = "target_gone"
    /\ flow[f].target \notin members[flow[f].guild]

\* C10: a submission whose cleaned content, once trimmed, is empty or shorter
\* than 10 characters is rejected: it is never backed up, posted or rewarded.
C10_ShortAfterTrimRejected ==
  \A f \in Flows :
    (Has(flow[f].log, "submit") /\ Len(Strip(flow[f].content)) < MinReviewLength) =>
      /\ flow[f].outcome \in ContentRejections
      /\ ~Has(flow[f].log, "backup") /\ ~Has(flow[f].log, "send")

RewardNotes ==
  {"none", "no_longer_exists", "already_held", "awarded", "insufficient_permissions",
   "error_assigning"}

C11_State ==
  \A f \in Flows :
    Has(flow[f].log, "posted") =>
      \/ flow[f].pc = "granting"
      \/ /\ flow[f].pc = "end"
         /\ flow[f].outcome = "Done"
         /\ flow[f].response = "success"
         /\ flow[f].role_message \in RewardNotes
         /\ flow[f].delivered \in {"success", "api_error", "none"}

C11_Step ==
  \A f \in Flows :
    /\ Has(flow[f].log, "posted") => Has(flow'[f].log, "posted")
    /\ flow[f].response # "none" => flow'[f] = flow[f]
    /\ (flow[f].pc = "posting" /\ Has(flow'[f].log, "posted") /\ flow'[f].pc = "end")
         => flow'[f].role_message =
              RewardStep(flow[f].guild, flow[f].user, flow[f].reward_role_id)
    /\ (flow[f].pc = "granting" /\ flow'[f].pc # "granting")
         => /\ flow'[f].outcome = "Done"
            /\ flow'[f].response = "success"
            /\ flow'[f].role_message \in
                 {"awarded", "insufficient_permissions", "error_assigning"}
            /\ (flow'[f].role_message = "awarded" <=> Has(flow'[f].log, "granted"))

\* C11: a submission whose public post went out ends as Done and the handler
\* answers once, with the success message, whatever the reward step did (no
\* role configured, role gone, already held, granted, Forbidden, API error):
\* a failed grant only changes the note appended to the success message, and
\* the post is never taken back.  (An answer the platform refuses reaches
\* the submitter as the API-error message or not at all.)
C11_PostedEndsDone ==
  /\ []C11_State
  /\ [][C11_Step]_vars
  /\ \A f \in Flows : Has(flow[f].log, "posted") ~> (flow[f].outcome = "Done")

C11_Witness ==
  \E f \in Flows :
    /\ flow[f].outcome = "Done" /\ Has(flow[f].log, "posted")
    /\ flow[f].role_message = "insufficient_permissions"
    /\ flow[f].delivered = "success"

\* The handlers of the slash commands.
CommandHandlers ==
  {"set_review_channel", "set_testimonial_channel", "set_reviewable_role",
   "set_reward_role", "clear", "list", "generate", "backup_info"}
\* The step is a command that ran from its start to its response.
WholeCommand == steps' = steps + 1 /\ cmd' = cmd

\* C12: every command handler that has finished has acknowledged its
\* interaction exactly once, and no exception of a further acknowledgment
\* attempt has left the handler.
C12_AcknowledgedExactlyOnce ==
  last.action \in CommandHandlers => (last.acks = 1 /\ ~last.escaped)

\* C13: a settings or generate command during which save_settings failed
\* answers with the error message of its except clause, never with a
\* success confirmation; the administrator gets that error message (or
\* nothing, when the platform refuses the response).
C13_SaveFailureIsReported ==
  last.save = "failed" =>
    /\ last.response = "unexpected_error"
    /\ last.delivered \in {"unexpected_error", "none"}

C13_Witness ==
  /\ last.action = "generate" /\ last.save = "failed"
  /\ last.delivered = "unexpected_error"
  /\ settingsFile.kind = "corrupt"

\* C14: load_settings and load_backup return the empty mapping and raise
\* nothing for a file that is missing, is not valid JSON or holds no object:
\* a command that only reads the settings file answers normally whatever
\* the state of the file, and the start of the process goes through.
C14_LoadReturnsEmpty ==
  /\ settingsFile.kind # "dict" =>
       \A readOk \in BOOLEAN :
         /\ ~LoadRaises(settingsFile, readOk)
         /\ load_settings(settingsFile, readOk) = EmptyDict
  /\ backupFile.kind # "dict" =>
       \A readOk \in BOOLEAN :
         /\ ~LoadRaises(backupFile, readOk)
         /\ load_backup(backupFile, readOk) = EmptyDict
  /\ (last.action = "list" /\ settingsFile.kind # "dict") =>
       (last.response = "settings_list" /\ last.save = "none")
  /\ last.action = "setup_hook" => ~last.escaped

\* C15: at start, setup_hook registers a view against the recorded message
\* id of every guild whose entry holds both a testimonial channel and a
\* message id, except the guilds for which add_view raised; nothing is
\* registered for a guild that lacks either field.
C15_ReattachEachGuild ==
  [][(last'.action = "setup_hook" /\ steps' = steps + 1
      /\ last'.read /\ settingsFile.kind = "dict") =>
       LET settings == settingsFile.data
           Both(g) == /\ "testimonial_channel" \in DOMAIN settings[g]
                      /\ "review_message_id" \in DOMAIN settings[g]
       IN  /\ \A g \in DOMAIN settings :
                (Both(g) /\ g \notin last'.failed) =>
                  /\ settings[g]["review_message_id"] \in DOMAIN registry'
                  /\ registry'[settings[g]["review_message_id"]] = ViewOf(settings[g])
           /\ \A m \in DOMAIN registry' :
                \E g \in DOMAIN settings :
                  Both(g) /\ g \notin last'.failed /\ settings[g]["review_message_id"] = m]_vars

C15_Witness ==
  /\ last.action = "setup_hook" /\ last.failed = {1}
  /\ settingsFile.kind = "dict" /\ 2 \in DOMAIN settingsFile.data
  /\ "review_message_id" \in DOMAIN settingsFile.data[2]
  /\ settingsFile.data[2]["review_message_id"] \in DOMAIN registry
  /\ settingsFile.data[1]["review_message_id"] \notin DOMAIN registry

\* C16: once a generate or set_review_channel command that posted the
\* entry-point message has finished and no other command is in flight, the
\* guild's review_message_id is the id of the message posted last for it.
C16_MessageIdIsLive ==
  (/\ last.action \in {"generate", "set_review_channel"}
   /\ last.posted # None
   /\ \A a \in Slots : cmd[a].pc = "idle")
    => /\ settingsFile.kind = "dict"
       /\ last.guild \in DOMAIN settingsFile.data
       /\ Get(settingsFile.data[last.guild], "review_message_id") = livePost[last.guild]

\* The role is one the claim says is rejected for the action.
BadRole(g, action, role) ==
  \/ role = EveryoneRoleOf(g)
  \/ Managed(role)
  \/ action = "set_reward_role" /\ Position(role) >= Position(BotTopRoleOf(g))

\* C17: set_reviewable_role and set_reward_role with the @everyone role or a
\* managed role, and set_reward_role with a role at or above the bot's top
\* role, answer with a rejection (with the error of the except clause when
\* the settings file cannot be loaded), save nothing and leave the settings
\* file as it was.
C17_RejectedRoleChangesNothing ==
  [][(WholeCommand /\ last'.action \in {"set_reviewable_role", "set_reward_role"}) =>
       /\ BadRole(last'.guild, last'.action, last'.role) =>
            /\ last'.response =
                 (IF LoadRaises(settingsFile, TRUE) THEN "unexpected_error"
                  ELSE IF last'.role = EveryoneRoleOf(last'.guild) THEN "everyone_role"
                  ELSE IF Managed(last'.role) THEN "managed_role"
                  ELSE "role_too_high")
            /\ last'.save = "none"
            /\ settingsFile' = settingsFile
       /\ last'.response \in {"everyone_role", "managed_role", "role_too_high"} =>
            settingsFile' = settingsFile]_vars

C17_Witness ==
  /\ last.action = "set_reward_role" /\ last.role = BotTopRoleOf(1)
  /\ last.response = "role_too_high" /\ last.delivered = "role_too_high"
  /\ settingsFile.kind = "dict" /\ settingsFile.data # EmptyDict

\* The settings file after command c of guild g has run on file with every
\* call succeeding; message_id is the id of the entry-point message if the
\* command posts one.
RunOnce(file, g, c, message_id) ==
  LET s == settings_command(file, g, c, TRUE, "ok")
  IN  IF s.result = "send"
      THEN entry_posted(s.file, s.settings, g, message_id, "ok", "review_set_posted").file
      ELSE s.file

\* The file without the review_message_id of guild g.
WithoutMessageId(file, g) ==
  IF file.kind = "dict" /\ g \in DOMAIN file.data
  THEN [file EXCEPT !.data[g] = [k \in DOMAIN @ \ {"review_message_id"} |-> @[k]]]
  ELSE file

\* C18 as stated: every configuration command, run twice in a row with the
\* same arguments, leaves the settings file as one run does.
C18_EveryCommandIdempotent ==
  \A g \in ConfigGuilds : \A c \in SettingsCommands(g) :
    LET once == RunOnce(settingsFile, g, c, nextMsg + 1)
    IN  RunOnce(once, g, c, nextMsg + 2) = once

\* C18, amended: set_testimonial_channel, set_reviewable_role,
\* set_reward_role and clear, run twice in a row with the same arguments and
\* with their writes succeeding, leave the settings file as one run does;
\* set_review_channel does so for everything but review_message_id, which
\* holds the id of the message the second run posted when a testimonial
\* channel is on record.
C18_IdempotentButForRepost ==
  \A g \in ConfigGuilds : \A c \in SettingsCommands(g) :
    LET once == RunOnce(settingsFile, g, c, nextMsg + 1)
        twice == RunOnce(once, g, c, nextMsg + 2)
        posts == settings_command(once, g, c, TRUE, "ok").result = "send"
    IN  IF c.action = "set_review_channel" /\ posts
        THEN /\ WithoutMessageId(twice, g) = WithoutMessageId(once, g)
             /\ twice.data[g]["review_message_id"] = nextMsg + 2
             /\ once.data[g]["review_message_id"] = nextMsg + 1
        ELSE twice = once

C18_Witness ==
  /\ last.action = "set_review_channel" /\ last.posted # None /\ last.save = "ok"
  /\ settingsFile.kind = "dict"
  /\ Get(settingsFile.data[last.guild], "review_message_id") = last.posted
  /\ settings_command(settingsFile, last.guild,
                      [action |-> "set_review_channel", channel |-> last.channel,
                       role |-> None], TRUE, "ok").result = "send"

\* ------------------------------------------------------------------ the pool
\* A click that opened the select menu of flow f.
Offered(f) == flow[f].pc = "idle" /\ flow'[f].pc = "select"

\* The non-bot members the reviewable-role rule makes eligible in guild g.
Eligible(g) ==
  IF view[g].role_id # None
  THEN {m \in members[g] : view[g].role_id \in userRoles[m] /\ m \notin Bots}
  ELSE {m \in members[g] : m \in Elevated /\ m \notin Bots}

\* C19: the pool offered at selection never has more than 25 entries, and
\* when more than 25 members are eligible exactly 25 of them are offered and
\* the rest are not.
C19_PoolIsCapped ==
  [][\A f \in Flows : Offered(f) =>
       LET pool == flow'[f].pool
           eligible == Eligible(flow'[f].guild)
       IN  /\ Cardinality(pool) <= 25
           /\ Cardinality(eligible) > 25 =>
                /\ Cardinality(pool) = 25
                /\ pool \subseteq eligible
                /\ eligible \ pool # {}]_vars

\* 30 members hold the reviewable role and 25 of them are offered.
C19_Witness ==
  \E f \in Flows :
    /\ flow[f].pc = "select"
    /\ view[flow[f].guild].role_id # None
    /\ Cardinality(Eligible(flow[f].guild)) = 30
    /\ Cardinality(flow[f].pool) = 25

\* C20 as stated: with the reviewable role set every offered member holds
\* it; with the role unset the pool before the cap is every member with
\* kick, manage-messages or manage-roles permission but the bot itself; the
\* bot itself is never offered.
C20_PoolFollowsRoleRule ==
  [][\A f \in Flows : Offered(f) =>
       LET g == flow'[f].guild
           pool == flow'[f].pool
       IN  /\ view[g].role_id # None =>
                \A m \in pool : view[g].role_id \in userRoles[m]
           /\ view[g].role_id = None =>
                pool = FirstN({m \in members[g] : m \in Elevated /\ m # BotId},
                              MaxSelectOptions)
           /\ BotId \notin pool]_vars

\* C20, amended: with the reviewable role set the pool before the cap is
\* every member holding it that is not a bot account; with the role unset it
\* is every member with kick, manage-messages or manage-roles permission that
\* is not a bot account; no bot account, the bot itself included, is offered.
C20_PoolFollowsRoleRuleWithoutBots ==
  [][\A f \in Flows : Offered(f) =>
       LET g == flow'[f].guild
           pool == flow'[f].pool
       IN  /\ view[g].role_id # None =>
                /\ \A m \in pool : view[g].role_id \in userRoles[m]
                /\ pool = FirstN({m \in members[g] :
                                    view[g].role_id \in userRoles[m] /\ m \notin Bots},
                                 MaxSelectOptions)
           /\ view[g].role_id = None =>
                pool = FirstN({m \in members[g] : m \in Elevated /\ m \notin Bots},
                              MaxSelectOptions)
           /\ pool \cap Bots = {}]_vars

\* The role is unset, an elevated bot account other than this bot is a member
\* and is left out of a pool that is not empty.
C20_Witness ==
  \E f \in Flows :
    /\ flow[f].pc = "select"
    /\ view[flow[f].guild].role_id = None
    /\ OtherBot \in members[flow[f].guild] \cap Elevated
    /\ OtherBot \notin flow[f].pool
    /\ flow[f].pool # {}

\* ------------------------------------------------------------------ suspicion
\* Where a submission goes, from what on_submit reads apart from the flag:
\* the two content checks, the target, the testimonial channel.
StepsOf(fl, content) ==
  IF ValidateContent(content) # "ok" THEN ValidateContent(content)
  ELSE IF TargetCheck(fl.guild, fl.target) # "ok" THEN TargetCheck(fl.guild, fl.target)
  ELSE IF ChannelCheck(fl.guild, fl.testimonial_channel_id) # "ok"
  THEN ChannelCheck(fl.guild, fl.testimonial_channel_id)
  ELSE "posting"

C21_State ==
  \A f \in Flows :
    /\ flow[f].outcome \in {"none", "TimedOut", "ClickFailed", "NotFound", "SelfReview",
                            "SelectFailed", "ContentEmpty", "ContentTooShort",
                            "TargetGone", "ChannelMissing", "PermissionDenied",
                            "PostForbidden", "PostFailed", "Done"}
    /\ flow[f].outcome = "Done" => flow[f].response = "success"

C21_Step ==
  \A f \in Flows :
    /\ Submits(f) =>
         LET steps_ == StepsOf(flow[f], flow'[f].content)
         IN  /\ steps_ = "posting" =>
                  /\ flow'[f].pc = "posting"
                  /\ flow'[f].log = flow[f].log \o <<"submit", "backup", "send">>
             /\ steps_ \in {"ChannelMissing", "PermissionDenied"} =>
                  /\ flow'[f].pc = "end" /\ flow'[f].outcome = steps_
                  /\ flow'[f].log = flow[f].log \o <<"submit", "backup">>
             /\ steps_ \in {"ContentEmpty", "ContentTooShort", "TargetGone"} =>
                  /\ flow'[f].pc = "end" /\ flow'[f].outcome = steps_
                  /\ flow'[f].log = flow[f].log \o <<"submit">>
    /\ ~Submits(f) => flow'[f].suspicious = flow[f].suspicious

\* C21: suspicion is advisory only.  Every submission, flagged or not, takes
\* the steps that its content checks, its target and its testimonial channel
\* decide (backup, post) and ends with one of the outcomes of an unflagged
\* submission, with the confirmation when it ends Done; the flag is not part
\* of what decides, so two submissions that differ in the flag alone take
\* the same steps, and a flagged one is posted.
C21_SuspicionIsAdvisory == []C21_State /\ [][C21_Step]_vars

\* A flagged and an unflagged submission were both posted and confirmed, the
\* flagged one with its reward.
C21_Witness ==
  \E f \in Flows, h \in Flows :
    /\ flow[f].suspicious /\ ~flow[h].suspicious
    /\ flow[f].outcome = "Done" /\ flow[h].outcome = "Done"
    /\ Has(flow[f].log, "posted") /\ Has(flow[h].log, "posted")
    /\ Has(flow[f].log, "granted")
    /\ flow[f].review_id # None /\ flow[h].review_id # None

\* ------------------------------------------------------------------ sanitizer
\* The characters of a text.
CharsOf(s) == {s[i] : i \in 1..Len(s)}

\* C22: for every raw input that contains a formatting-control character
\* (backquote, asterisk, underscore, tilde), the sanitized output contains
\* none of that character.
C22_NoMarkdownLeft ==
  clean.ran => \A c \in MarkdownChars \cap CharsOf(raw) : c \notin CharsOf(clean.text)

\* A raw text with two different markdown characters in it was sanitized to
\* a text that is not empty.
C22_Witness ==
  /\ clean.ran
  /\ Cardinality(MarkdownChars \cap CharsOf(raw)) = 2
  /\ clean.text # <<>>

\* The raw text without its markdown characters.
Stripped(s) == SelectSeq(s, LAMBDA c : c \notin MarkdownChars)

\* C23: for every raw input longer than 1000, the sanitized output has
\* length at most 1000 and is the prefix of the stripped text: the markdown
\* characters are removed first, the result is cut then.
C23_CutAfterStripping ==
  (clean.ran /\ Len(raw) > 1000) =>
    /\ Len(clean.text) <= 1000
    /\ Len(clean.text) = IF Len(Stripped(raw)) < 1000 THEN Len(Stripped(raw)) ELSE 1000
    /\ clean.text = SubSeq(Stripped(raw), 1, Len(clean.text))

\* A raw text longer than 1000 that starts with a markdown character and is
\* still longer than 1000 without it was cut to 1000.
C23_Witness ==
  /\ clean.ran
  /\ Len(raw) > 1000
  /\ raw[1] \in MarkdownChars
  /\ Len(Stripped(raw)) > 1000
  /\ Len(clean.text) = 1000

\* A user or channel mention token starts at position i: <@ or <@! or <#,
\* digits, >.
MentionTokenAt(s, i) ==
  /\ MatchAt(s, <<"<", "@">>, i) \/ MatchAt(s, <<"<", "#">>, i)
  /\ LET d == IF MatchAt(s, <<"<", "@", "!">>, i) THEN i + 3 ELSE i + 2
     IN  \E j \in (d + 1)..Len(s) :
           /\ s[j] = ">"
           /\ \A k \in d..(j - 1) : s[k] \in Digits
MentionTokens(s) == Cardinality({i \in 1..Len(s) : MentionTokenAt(s, i)})

\* The raw text matches a broadcast-mention or a mass-role-mention token.
BroadcastOrRoleMention(s) ==
  \/ Contains(Lower(s), <<"@","e","v","e","r","y","o","n","e">>)
  \/ Contains(Lower(s), <<"@","h","e","r","e">>)
  \/ RoleMention(s)

\* C24: sanitize flags every raw input that matches a broadcast-mention or
\* mass-role-mention token, the match made on the raw text, and does not flag
\* a raw input with at most 3 user/channel mention tokens and no listed
\* pattern.
C24_FlaggedExactlyWhenListedOrMentions ==
  clean.ran =>
    /\ BroadcastOrRoleMention(raw) => clean.suspicious
    /\ (MentionTokens(raw) <= 3 /\ ~MatchesPattern(raw)) => ~clean.suspicious

\* ------------------------------------------------------------ concurrent edits
\* The command of slot a comes back from its channel.send.
Resumes(a) == cmd[a].pc = "sending" /\ cmd'[a].pc = "idle" /\ steps' = steps

\* A set command ran whole in this step and saved.
SetsField ==
  /\ steps' = steps + 1
  /\ last' # last
  /\ last'.action \in DOMAIN KeyOf
  /\ last'.save = "ok"

\* C25: the Settings Store is last-writer-wins.  A command that saves after
\* its channel.send leaves the file as its own copy of the settings, loaded
\* before the send, with its message id; a set command leaves the file as it
\* found it with its own field.  The update another command saved and
\* confirmed in between is then lost (the witness).
C25_LastWriterWins ==
  [][/\ \A a \in Slots :
          (Resumes(a) /\ last'.save = "ok") =>
            settingsFile' =
              [kind |-> "dict",
               data |-> SetKey(cmd[a].settings, cmd[a].guild, "review_message_id",
                               last'.posted)]
     /\ SetsField =>
          settingsFile' =
            [kind |-> "dict",
             data |-> SetKey(load_settings(settingsFile, TRUE), last'.guild,
                             KeyOf[last'.action],
                             IF last'.action = "set_testimonial_channel"
                             THEN last'.channel ELSE last'.role)]]_vars

\* Two commands were in flight on one guild: a set command saved a field and
\* confirmed it, then the save of a set_review_channel or generate command
\* that had loaded the settings earlier took the field out of the file.
C25_Witness ==
  /\ last.action \in {"set_review_channel", "generate"}
  /\ last.save = "ok"
  /\ last.lost # {}
  /\ settingsFile.kind = "dict"
  /\ \A k \in last.lost : k \notin DOMAIN EntryOf(settingsFile, last.guild)

\* The entries of the guilds other than g are the same in both files.
OthersKept(file, new, g) ==
  \A h \in ConfigGuilds \ {g} :
    /\ h \in DOMAIN file.data <=> h \in DOMAIN new.data
    /\ EntryOf(new, h) = EntryOf(file, h)

\* C26: a settings or generate command invoked in a guild never changes or
\* removes another guild's entry in the settings file (a file that is
\* readable before and after the step), also when it overlaps a command
\* that is writing the other guild's configuration.
C26_OtherGuildsUntouched ==
  [][(settingsFile.kind = "dict" /\ settingsFile'.kind = "dict") =>
       /\ \A a \in Slots :
            /\ Resumes(a) => OthersKept(settingsFile, settingsFile', cmd[a].guild)
            /\ (cmd[a].pc = "idle" /\ cmd'[a].pc = "sending") =>
                 OthersKept(settingsFile, settingsFile', cmd'[a].guild)
       /\ (steps' = steps + 1 /\ last' # last /\ cmd' = cmd
           /\ last'.action \notin {"setup_hook", "backup_info", "tamper"}) =>
            OthersKept(settingsFile, settingsFile', last'.guild)]_vars

\* -------------------------------------------------------- concurrent submissions
\* The flows that reached the backup step.
BackedUp == {f \in Flows : Has(flow[f].log, "backup")}

\* C27: with several submissions in flight, the handlers interleaving at
\* their platform calls only, and every backup read and write succeeding, no
\* record is lost: the backup file holds one record per submission that
\* reached the backup step, under the submission's guild and under an id
\* of its own.
C27_NoRecordLost ==
  /\ \A f \in BackedUp :
       /\ flow[f].review_id # None
       /\ \E r \in StoredRecords(backupFile) :
            /\ r[1] = flow[f].guild
            /\ r[2] = flow[f].review_id
            /\ r[3].reviewer_id = flow[f].user
            /\ r[3].reviewed_id = flow[f].target
            /\ r[3].content = flow[f].content
  /\ \A f \in BackedUp, h \in BackedUp : f # h => flow[f].review_id # flow[h].review_id
  /\ Cardinality(StoredRecords(backupFile)) = Cardinality(BackedUp)

\* Two submissions are in flight, both past their backup and waiting for
\* channel.send, and the file holds both records.
C27_Witness ==
  /\ \A f \in Flows : flow[f].pc = "posting"
  /\ BackedUp = Flows
  /\ Cardinality(StoredRecords(backupFile)) = Cardinality(Flows)

\* ------------------------------------------------------- configuration in use
\* The entry of the flow's guild in the settings file.
Recorded(f) == EntryOf(settingsFile, flow[f].guild)

\* C28: the testimonial channel a submission posts to and the reward role it
\* grants are the ones the settings file records for the guild when the step
\* runs, so that after a set_testimonial_channel, set_reward_role or clear
\* command a submission from the entry-point button already posted does not
\* post to the previous channel or grant the previous role: the button hands
\* the submission the recorded channel and role, and the post and the grant
\* use the recorded ones.
C28_SettingsDriveEachStep ==
  [][settingsFile.kind = "dict" =>
       \A f \in Flows :
         /\ (flow[f].pc = "idle" /\ flow'[f].pc = "select") =>
              LET recorded == EntryOf(settingsFile, flow'[f].guild)
              IN  /\ flow'[f].testimonial_channel_id = Get(recorded, "testimonial_channel")
                  /\ flow'[f].reward_role_id = Get(recorded, "reward_role")
         /\ (~Has(flow[f].log, "posted") /\ Has(flow'[f].log, "posted")) =>
              flow[f].testimonial_channel_id = Get(Recorded(f), "testimonial_channel")
         /\ (~Has(flow[f].log, "granted") /\ Has(flow'[f].log, "granted")) =>
              flow[f].reward_role_id = Get(Recorded(f), "reward_role")]_vars

====
